---- MODULE Spec2Model ----
(***************************************************************************)
(* Account dashboard bot (src/main.py): broker snapshot adapters, the      *)
(* Kraken Earn wallet valuation, the row builder, and the update cycle     *)
(* that writes the rows to the sheet range starting at A5.                 *)
(*                                                                         *)
(* Python str values that the code inspects (asset codes, amounts, prices, *)
(* the A1 range) are sequences of one-character strings, so that endswith, *)
(* split, float() and the A1 notation are computed rather than assumed.    *)
(* Python floats are modelled by integers: the inputs are integer-valued   *)
(* decimal strings, on which float arithmetic is exact.                    *)
(***************************************************************************)
EXTENDS Integers, Sequences, FiniteSets, TLC

VARIABLES
    pc,            \* position of the process (main / update_sheet_once / pure-function harness)
    config,        \* os.environ: which variables are set, and UPDATE_INTERVAL_SECONDS
    now,           \* wall clock, in ticks
    cycle,         \* number of update cycles started
    timestamp_str, \* update_sheet_once: the timestamp captured for the cycle
    snapshots,     \* update_sheet_once: the snapshot list built so far
    remote,        \* what each broker's remote call did in the current cycle
    rows,          \* update_sheet_once: rows built by build_rows
    wrote,         \* the ws.update request issued in the current cycle, if any
    sheet,         \* the worksheet's cells
    exc,           \* the exception that ended the current cycle, "" if none
    earn_in,       \* valuation harness: inputs of get_kraken_earn_wallet_value
    earn_out,      \* valuation harness: its result
    rows_in,       \* row-builder harness: inputs of build_rows
    rows_out       \* row-builder harness: its result

vars == <<pc, config, now, cycle, timestamp_str, snapshots, remote, rows, wrote,
          sheet, exc, earn_in, earn_out, rows_in, rows_out>>

---------------------------------------------------------------------------
(* Bounds of the model *)

\* largest number of entries in a Kraken balance map
MaxBal == 3
\* largest number of update cycles a run of the loop is followed for
MaxCycles == 3

---------------------------------------------------------------------------
(* Python str helpers *)

\* s.endswith(sfx)
EndsWith(s, sfx) ==
    /\ Len(s) >= Len(sfx)
    /\ SubSeq(s, Len(s) - Len(sfx) + 1, Len(s)) = sfx

\* s.split(sep, 1)[0] for a one-character sep: the part before the first sep
SplitFirst(s, sep) ==
    IF \E i \in 1..Len(s) : s[i] = sep
    THEN LET i == CHOOSE j \in 1..Len(s) :
                      s[j] = sep /\ \A m \in 1..(j - 1) : s[m] # sep
         IN  SubSeq(s, 1, i - 1)
    ELSE s

DigitChars == <<"0", "1", "2", "3", "4", "5", "6", "7", "8", "9">>

IsDigit(c) == \E d \in 1..10 : DigitChars[d] = c

DigitVal(c) == (CHOOSE d \in 1..10 : DigitChars[d] = c) - 1

\* str(n) for n >= 0, as in an f-string
RECURSIVE FormatNat(_)
FormatNat(n) ==
    IF n < 10 THEN <<DigitChars[n + 1]>>
    ELSE Append(FormatNat(n \div 10), DigitChars[(n % 10) + 1])

RECURSIVE ParseNat(_)
ParseNat(s) ==
    IF Len(s) = 0 THEN 0
    ELSE 10 * ParseNat(SubSeq(s, 1, Len(s) - 1)) + DigitVal(s[Len(s)])

AllDigits(s) == Len(s) > 0 /\ \A i \in 1..Len(s) : IsDigit(s[i])

\* float(s) on integer-valued decimal text: [ok |-> FALSE] is ValueError/TypeError
ParseFloat(s) ==
    IF AllDigits(s) THEN [ok |-> TRUE, v |-> ParseNat(s)]
    ELSE IF Len(s) > 1 /\ s[1] = "-" /\ AllDigits(Tail(s))
         THEN [ok |-> TRUE, v |-> 0 - ParseNat(Tail(s))]
         ELSE [ok |-> FALSE, v |-> 0]

---------------------------------------------------------------------------
(* Kraken Earn wallet valuation *)

ZUSD == <<"Z", "U", "S", "D">>
ZEUR == <<"Z", "E", "U", "R">>
ZGBP == <<"Z", "G", "B", "P">>
ZCAD == <<"Z", "C", "A", "D">>
ZAUD == <<"Z", "A", "U", "D">>
ZJPY == <<"Z", "J", "P", "Y">>
ZCHF == <<"Z", "C", "H", "F">>

kraken_base_alt_name(base_asset) ==
    CASE base_asset = ZUSD -> <<"U", "S", "D">>
      [] base_asset = ZEUR -> <<"E", "U", "R">>
      [] base_asset = ZGBP -> <<"G", "B", "P">>
      [] base_asset = ZCAD -> <<"C", "A", "D">>
      [] base_asset = ZAUD -> <<"A", "U", "D">>
      [] base_asset = ZJPY -> <<"J", "P", "Y">>
      [] base_asset = ZCHF -> <<"C", "H", "F">>
      [] OTHER -> base_asset

BalanceMethods == <<"get_account_balance", "get_balance", "get_balances">>

\* The nested try/except AttributeError chain: the first balance method the
\* client has, "" when it has none of the three.
BalanceMethod(methods) ==
    IF \E i \in 1..3 : BalanceMethods[i] \in methods
    THEN BalanceMethods[CHOOSE i \in 1..3 :
             /\ BalanceMethods[i] \in methods
             /\ \A j \in 1..(i - 1) : BalanceMethods[j] \notin methods]
    ELSE ""

earn_suffixes == {<<".", "B">>, <<".", "S">>, <<".", "M">>}

AutoEarnSuffix == <<".", "F">>

\* The amount text of a balance entry: the entry itself (Balance) or
\* entry.get("balance", "0") (BalanceEx).
AmountStr(entry) ==
    IF entry.shape = "str" THEN entry.text
    ELSE IF entry.shape = "dict" THEN entry.text
    ELSE <<"0">>

\* Faulty variant of IsEarnItem: every positive balance with a wallet suffix is kept,
\* '.F' included
IsEarnItemAnySuffix(asset, entry) ==
    /\ \E i \in 1..Len(asset) : asset[i] = "."
    /\ ParseFloat(AmountStr(entry)).ok
    /\ ParseFloat(AmountStr(entry)).v > 0

\* Whether the normalisation loop keeps the item (asset, entry)
SkipsAutoEarn(asset) == EndsWith(asset, AutoEarnSuffix)

IsEarnItem(asset, entry) ==
    /\ ~SkipsAutoEarn(asset)
    /\ \E sfx \in earn_suffixes : EndsWith(asset, sfx)
    /\ ParseFloat(AmountStr(entry)).ok
    /\ ParseFloat(AmountStr(entry)).v > 0

\* earn_balances: the kept items, in the order of balances.items(), as
\* <<asset, amount>> pairs
RECURSIVE EarnBalances(_)
EarnBalances(items) ==
    IF Len(items) = 0 THEN <<>>
    ELSE LET asset == items[1][1]
             entry == items[1][2]
         IN  IF IsEarnItem(asset, entry)
             THEN <<<<asset, ParseFloat(AmountStr(entry)).v>>>> \o EarnBalances(Tail(items))
             ELSE EarnBalances(Tail(items))

\* The n-th answer of market.get_ticker in one valuation call
TickerAt(oracle, n) ==
    IF Len(oracle) = 0 THEN [kind |-> "raise", close |-> <<>>]
    ELSE oracle[((n - 1) % Len(oracle)) + 1]

\* Faulty variant of CacheHas: the price cache is never consulted
CacheHasNever(price_cache, underlying) == FALSE

CacheHas(price_cache, underlying) == \E e \in price_cache : e[1] = underlying

CacheGet(price_cache, underlying) ==
    (CHOOSE e \in price_cache : e[1] = underlying)[2]

\* Faulty variant of IsBaseAsset: only the internal code is recognised, not its alias
IsBaseAssetExactOnly(underlying, base_asset) == underlying = base_asset

\* underlying == base_asset or underlying == base_alt
IsBaseAsset(underlying, base_asset) ==
    underlying = base_asset \/ underlying = kraken_base_alt_name(base_asset)

\* Faulty variant of AfterFailedLookup: a bad quote throws away the total so far
AfterFailedLookupAbort(st, call) ==
    [total_value |-> 0, price_cache |-> st.price_cache, calls |-> Append(st.calls, call)]

\* What the loop does after a ticker lookup that gave no usable price
\* (raised, no data, unexpected format): continue, nothing cached.
AfterFailedLookup(st, call) ==
    [st EXCEPT !.calls = Append(@, call)]

\* One iteration of the conversion loop on earn_balances[k]
EarnIteration(st, item, base_asset, oracle) ==
    LET asset      == item[1]
        amount     == item[2]
        underlying == SplitFirst(asset, ".")
        base_alt   == kraken_base_alt_name(base_asset)
    IN  IF IsBaseAsset(underlying, base_asset)
        THEN [st EXCEPT !.total_value = @ + amount]
        ELSE IF CacheHas(st.price_cache, underlying)
        THEN [st EXCEPT !.total_value = @ + amount * CacheGet(st.price_cache, underlying)]
        ELSE LET ticker == TickerAt(oracle, Len(st.calls) + 1)
                 call   == [asset |-> asset, underlying |-> underlying,
                            pair |-> underlying \o base_alt, ticker |-> ticker]
             IN  IF ticker.kind = "raise" THEN AfterFailedLookup(st, call)
                 ELSE IF ticker.kind = "empty" THEN AfterFailedLookup(st, call)
                 ELSE IF ticker.kind = "malformed" \/ ~ParseFloat(ticker.close).ok
                 THEN AfterFailedLookup(st, call)
                 ELSE LET price == ParseFloat(ticker.close).v
                      IN  [total_value |-> st.total_value + amount * price,
                           price_cache |-> st.price_cache \cup {<<underlying, price>>},
                           calls       |-> Append(st.calls, call)]

RECURSIVE EarnLoop(_, _, _, _, _)
EarnLoop(st, earn_balances, k, base_asset, oracle) ==
    IF k > Len(earn_balances) THEN st
    ELSE EarnLoop(EarnIteration(st, earn_balances[k], base_asset, oracle),
                  earn_balances, k + 1, base_asset, oracle)

EarnResult(status, value, price_cache, calls) ==
    [status |-> status, value |-> value, price_cache |-> price_cache, calls |-> calls]

\* get_kraken_earn_wallet_value(user, base_asset); kenv is what the Kraken
\* services do during the call: the balance methods the client has, what the
\* balance call gives, whether KrakenMarket() can be built, and the answers
\* of market.get_ticker in call order.  status "raise" is an exception that
\* leaves the function.
get_kraken_earn_wallet_value(kenv, base_asset) ==
    IF BalanceMethod(kenv.methods) = "" THEN EarnResult("return", 0, {}, <<>>)
    ELSE IF kenv.balances.kind = "raise" THEN EarnResult("return", 0, {}, <<>>)
    ELSE IF kenv.balances.kind = "notdict" THEN EarnResult("raise", 0, {}, <<>>)
    ELSE LET earn_balances == EarnBalances(kenv.balances.items)
         IN  IF Len(earn_balances) = 0 THEN EarnResult("return", 0, {}, <<>>)
             ELSE IF ~kenv.market_ok THEN EarnResult("raise", 0, {}, <<>>)
             ELSE LET st == EarnLoop([total_value |-> 0, price_cache |-> {}, calls |-> <<>>],
                                     earn_balances, 1, base_asset, kenv.oracle)
                  IN  EarnResult("return", st.total_value, st.price_cache, st.calls)

---------------------------------------------------------------------------
(* Python values held by rows and sheet cells *)

PyStr(s) == [t |-> "str", s |-> s, n |-> 0]
PyNum(n) == [t |-> "num", s |-> "", n |-> n]
EmptyCell == [t |-> "empty", s |-> "", n |-> 0]

\* a Python str held as a sequence of characters, as one string
RECURSIVE StrOf(_)
StrOf(chars) == IF Len(chars) = 0 THEN "" ELSE chars[1] \o StrOf(Tail(chars))

---------------------------------------------------------------------------
(* Broker snapshot adapters *)

\* Python None; a snapshot is a record (dict), EmptyDict is {}
None == [py |-> "None"]
EmptyDict == <<>>
IsNone(x) == "py" \in DOMAIN x

\* get_alpaca_snapshot, once the account object is there
get_alpaca_snapshot(account) ==
    [name            |-> "Alpaca",
     currency        |-> IF account.has_currency THEN account.currency ELSE "USD",
     account_value   |-> account.equity,
     available_funds |-> account.buying_power]

\* Faulty variant of AttachesEarn: a zero value is attached too
AttachesEarnNonNegative(earn_wallet_value) == earn_wallet_value >= 0

\* Only include Earn wallet value if it's positive
AttachesEarn(earn_wallet_value) == earn_wallet_value > 0

\* earn_wallet_value as get_kraken_snapshot sees it: the valuation's return
\* value, or 0.0 when the valuation raised
EarnValueOrZero(earn) == IF earn.status = "raise" THEN 0 ELSE earn.value

\* get_kraken_snapshot, once get_trade_balance has answered with tb; earn is
\* the outcome of get_kraken_earn_wallet_value
get_kraken_snapshot(tb, base_asset, earn) ==
    LET equivalent_balance == IF tb.has_eb THEN tb.eb ELSE 0
        free_margin        == IF tb.has_mf THEN tb.mf ELSE equivalent_balance
        earn_wallet_value  == EarnValueOrZero(earn)
        snapshot == [name            |-> "Kraken",
                     currency        |-> StrOf(base_asset),
                     account_value   |-> equivalent_balance,
                     available_funds |-> free_margin]
    IN  IF AttachesEarn(earn_wallet_value)
        THEN [name              |-> snapshot.name,
              currency          |-> snapshot.currency,
              account_value     |-> snapshot.account_value,
              available_funds   |-> snapshot.available_funds,
              earn_wallet_value |-> earn_wallet_value]
        ELSE snapshot

\* get_oanda_snapshot, once the AccountSummary response is there
get_oanda_snapshot(account) ==
    [name            |-> "OANDA",
     currency        |-> IF account.has_currency THEN account.currency ELSE "USD",
     account_value   |-> account.NAV,
     available_funds |-> account.marginAvailable]

---------------------------------------------------------------------------
(* Sheet writing *)

\* `if not snap`: None and {} are skipped
Falsy(snap) == DOMAIN snap = {} \/ IsNone(snap)

\* Faulty variant of HasEarnRow: a truthiness test, which drops a zero value
HasEarnRowTruthy(snap) ==
    "earn_wallet_value" \in DOMAIN snap /\ snap.earn_wallet_value # 0

\* snap.get("earn_wallet_value") is not None
HasEarnRow(snap) == "earn_wallet_value" \in DOMAIN snap

SnapshotRows(snap, ts) ==
    LET label_value     == snap.name \o ": Account Value (" \o snap.currency \o ")"
        label_available == snap.name \o ": Available Funds (" \o snap.currency \o ")"
        label_earn      == snap.name \o ": Earn Wallet Value (" \o snap.currency \o ")"
        two == << <<PyStr(label_value), PyNum(snap.account_value), PyStr(ts)>>,
                  <<PyStr(label_available), PyNum(snap.available_funds), PyStr(ts)>> >>
    IN  IF HasEarnRow(snap)
        THEN Append(two, <<PyStr(label_earn), PyNum(snap.earn_wallet_value), PyStr(ts)>>)
        ELSE two

RECURSIVE build_rows(_, _)
build_rows(snaps, ts) ==
    IF Len(snaps) = 0 THEN <<>>
    ELSE IF Falsy(snaps[1]) THEN build_rows(Tail(snaps), ts)
    ELSE SnapshotRows(snaps[1], ts) \o build_rows(Tail(snaps), ts)

start_row == 5

\* Faulty variant of cell_range: end_row is one row too far
cell_range_off_by_one(rs) ==
    <<"A">> \o FormatNat(start_row) \o <<":", "C">> \o FormatNat(start_row + Len(rs))

\* cell_range = f"A{start_row}:C{end_row}"
cell_range(rs) ==
    LET end_row == start_row + Len(rs) - 1
    IN  <<"A">> \o FormatNat(start_row) \o <<":", "C">> \o FormatNat(end_row)

Columns == <<"A", "B", "C", "D">>

ColIndex(c) == CHOOSE i \in 1..Len(Columns) : Columns[i] = c

\* The rectangle an A1 range such as A5:C9 names (1-based, inclusive)
ParseA1(range_name) ==
    LET k == CHOOSE i \in 1..Len(range_name) : range_name[i] = ":"
    IN  [c1 |-> ColIndex(range_name[1]),
         r1 |-> ParseNat(SubSeq(range_name, 2, k - 1)),
         c2 |-> ColIndex(range_name[k + 1]),
         r2 |-> ParseNat(SubSeq(range_name, k + 2, Len(range_name)))]

InRect(rect, r, c) == rect.r1 <= r /\ r <= rect.r2 /\ rect.c1 <= c /\ c <= rect.c2

\* ws.update(range_name=..., values=..., value_input_option="USER_ENTERED"):
\* the cells of the rectangle take the block's values, every other cell stays
ws_update(sh, range_name, values) ==
    LET rect == ParseA1(range_name)
    IN  [r \in DOMAIN sh |->
            [c \in DOMAIN sh[r] |->
                IF /\ InRect(rect, r, c)
                   /\ r - rect.r1 + 1 \in DOMAIN values
                   /\ c - rect.c1 + 1 \in DOMAIN values[r - rect.r1 + 1]
                THEN values[r - rect.r1 + 1][c - rect.c1 + 1]
                ELSE sh[r][c]]]

---------------------------------------------------------------------------
(* Inputs of the valuation: what Kraken's services can answer *)

StrEntry(text)  == [shape |-> "str", text |-> text]
DictEntry(text) == [shape |-> "dict", text |-> text]
DictNoBalance   == [shape |-> "dict_nobalance", text |-> <<>>]

\* Balance entries the inputs are drawn from: (asset code, entry)
Catalogue ==
    << <<<<"D", "O", "T", ".", "B">>, StrEntry(<<"2">>)>>,
       <<<<"D", "O", "T", ".", "S">>, DictEntry(<<"3">>)>>,
       <<<<"D", "O", "T", ".", "F">>, StrEntry(<<"5">>)>>,
       <<<<"E", "T", "H", ".", "M">>, StrEntry(<<"1">>)>>,
       <<<<"U", "S", "D", ".", "B">>, StrEntry(<<"4">>)>>,
       <<<<"Z", "U", "S", "D", ".", "S">>, DictEntry(<<"1">>)>>,
       <<<<"U", "S", "D", ".", "F">>, StrEntry(<<"7">>)>>,
       <<<<"X", "B", "T">>, StrEntry(<<"6">>)>>,
       <<<<"E", "T", "H", ".", "B">>, StrEntry(<<"0">>)>>,
       <<<<"E", "T", "H", ".", "S">>, StrEntry(<<"a", "b", "c">>)>>,
       <<<<"A", "D", "A", ".", "B">>, DictNoBalance>>,
       <<<<"D", "O", "T", ".", "M">>, StrEntry(<<"-", "1">>)>> >>

\* The items of the catalogue at the indices idx, in catalogue order
RECURSIVE ItemsOf(_)
ItemsOf(idx) ==
    IF idx = {} THEN <<>>
    ELSE LET i == CHOOSE m \in idx : \A n \in idx : m <= n
         IN  <<Catalogue[i]>> \o ItemsOf(idx \ {i})

RECURSIVE Reverse(_)
Reverse(s) == IF Len(s) = 0 THEN <<>> ELSE Append(Reverse(Tail(s)), s[1])

\* Balance maps of at most MaxBal entries, in either iteration order
BalanceMaps ==
    { IF rev THEN Reverse(ItemsOf(idx)) ELSE ItemsOf(idx) :
        idx \in {x \in SUBSET (1..Len(Catalogue)) : Cardinality(x) <= MaxBal},
        rev \in BOOLEAN }

Tickers ==
    { [kind |-> "raise", close |-> <<>>],
      [kind |-> "empty", close |-> <<>>],
      [kind |-> "malformed", close |-> <<>>],
      [kind |-> "data", close |-> <<"x">>],
      [kind |-> "data", close |-> <<"2">>],
      [kind |-> "data", close |-> <<"-", "1">>] }

RECURSIVE SeqsOfLen(_, _)
SeqsOfLen(S, n) ==
    IF n = 0 THEN {<<>>}
    ELSE {Append(q, x) : q \in SeqsOfLen(S, n - 1), x \in S}

BaseAssets == {ZUSD, <<"U", "S", "D">>}

\* The earn items of a balance map that are not the base asset: each may
\* need a ticker lookup
LookupsNeeded(items, base_asset) ==
    Cardinality({k \in 1..Len(EarnBalances(items)) :
        ~IsBaseAsset(SplitFirst(EarnBalances(items)[k][1], "."), base_asset)})

AllMethods == {"get_account_balance", "get_balance", "get_balances"}

HealthyKraken(items, oracle) ==
    [methods |-> AllMethods, balances |-> [kind |-> "dict", items |-> items],
     market_ok |-> TRUE, oracle |-> oracle]

\* Valuation inputs with a working client and market, one ticker answer for
\* every lookup the balance map may need
IsHealthyInput(x) ==
    \E items \in BalanceMaps, b \in BaseAssets :
        \E oracle \in SeqsOfLen(Tickers, LookupsNeeded(items, b)) :
            x = [kenv |-> HealthyKraken(items, oracle), base_asset |-> b]

SampleItems == ItemsOf({1, 5})

\* Valuation inputs where the client or the market fails
FailingInputs ==
    { [kenv |-> [methods |-> m, balances |-> [kind |-> k, items |-> SampleItems],
                 market_ok |-> ok, oracle |-> <<[kind |-> "data", close |-> <<"2">>]>>],
       base_asset |-> ZUSD] :
        m \in {{}, {"get_balance"}, {"get_balances"}, {"get_balance", "get_balances"}},
        k \in {"dict", "raise", "notdict"},
        ok \in BOOLEAN }

NoResult == EarnResult("none", 0, {}, <<>>)

---------------------------------------------------------------------------
(* The sheet and the state of the process *)

\* number of sheet rows the model keeps
SheetRows == 12

InitSheet ==
    [r \in 1..SheetRows |->
        [c \in 1..Len(Columns) |->
            IF r < start_row THEN PyStr("header")
            ELSE IF Columns[c] = "D" THEN PyStr("note")
            ELSE EmptyCell]]

Brokers == <<"Alpaca", "Kraken", "OANDA">>

NoRemote == [b \in {"Alpaca", "Kraken", "OANDA"} |-> "not_called"]

NoWrite == [issued |-> FALSE, range_name |-> <<>>, values |-> <<>>]

NoEarnInput == [kenv |-> HealthyKraken(<<>>, <<>>), base_asset |-> ZUSD]

NoRowsInput == [snapshots |-> <<>>, ts |-> ""]

ProgramVars == <<config, now, cycle, timestamp_str, snapshots, remote, rows, wrote, sheet, exc>>

ProgramIdle ==
    /\ config = [set |-> {}, interval |-> <<>>]
    /\ now = 0
    /\ cycle = 0
    /\ timestamp_str = ""
    /\ snapshots = <<>>
    /\ remote = NoRemote
    /\ rows = <<>>
    /\ wrote = NoWrite
    /\ sheet = InitSheet
    /\ exc = ""

---------------------------------------------------------------------------
(* Valuation harness: get_kraken_earn_wallet_value on every input *)

InitEarn ==
    /\ pc = "earn_call"
    /\ IsHealthyInput(earn_in) \/ earn_in \in FailingInputs
    /\ earn_out = NoResult
    /\ rows_in = NoRowsInput
    /\ rows_out = <<>>
    /\ ProgramIdle

EarnCall ==
    /\ pc = "earn_call"
    /\ earn_out' = get_kraken_earn_wallet_value(earn_in.kenv, earn_in.base_asset)
    /\ pc' = "earn_ret"
    /\ UNCHANGED <<earn_in, rows_in, rows_out>>
    /\ UNCHANGED ProgramVars

NextEarn == EarnCall

SpecEarn == InitEarn /\ [][NextEarn]_vars

---------------------------------------------------------------------------
(* Claims about the valuation, checked under SpecEarn *)

EarnReturned == pc = "earn_ret"

InBalances == earn_in.kenv.balances.items

\* the valuation reached its conversion loop
LoopRan ==
    /\ EarnReturned
    /\ BalanceMethod(earn_in.kenv.methods) # ""
    /\ earn_in.kenv.balances.kind = "dict"
    /\ earn_in.kenv.market_ok
    /\ Len(EarnBalances(InBalances)) > 0

IsAutoEarn(item) == EndsWith(item[1], <<".", "F">>)

NotAutoEarn(item) == ~IsAutoEarn(item)

UsablePrice(ticker) == ticker.kind = "data" /\ ParseFloat(ticker.close).ok

\* position of an asset code in a sequence of (asset, _) pairs, 0 if absent
PosOf(pairs, asset) ==
    IF \E k \in 1..Len(pairs) : pairs[k][1] = asset
    THEN CHOOSE k \in 1..Len(pairs) : pairs[k][1] = asset
    ELSE 0

RECURSIVE SumTo(_, _)
SumTo(f, n) == IF n = 0 THEN 0 ELSE f[n] + SumTo(f, n - 1)

CallsFor(calls, underlying) == {n \in 1..Len(calls) : calls[n].underlying = underlying}

\* C5: assets whose code ends with '.F' contribute exactly 0 to the returned
\* total, whatever their amount, and never cause a price fetch: the valuation
\* returns the same total and makes the same ticker calls as on the balance
\* map without its '.F' entries, and no ticker call is made for a '.F' entry.
C5_AutoEarnContributesZero ==
    EarnReturned =>
        LET without == [earn_in.kenv EXCEPT
                          !.balances.items = SelectSeq(InBalances, NotAutoEarn)]
            ref     == get_kraken_earn_wallet_value(without, earn_in.base_asset)
        IN  /\ earn_out.status = ref.status
            /\ earn_out.value = ref.value
            /\ earn_out.calls = ref.calls
            /\ \A n \in 1..Len(earn_out.calls) :
                   ~EndsWith(earn_out.calls[n].asset, <<".", "F">>)

\* a returned valuation of a map holding DOT.F and DOT.B, with DOT priced
C5_Witness ==
    /\ LoopRan
    /\ \E k \in 1..Len(InBalances) : IsAutoEarn(InBalances[k])
    /\ \E k \in 1..Len(InBalances) : InBalances[k][1] = <<"D", "O", "T", ".", "F">>
    /\ \E k \in 1..Len(InBalances) : InBalances[k][1] = <<"D", "O", "T", ".", "B">>
    /\ earn_out.status = "return"
    /\ earn_out.value = 4
    /\ Len(earn_out.calls) = 1

\* C6 as stated: within one valuation call at most one get_ticker call is
\* made per underlying asset, whether the fetch succeeded, returned no data
\* or was malformed.
C6_OneFetchPerUnderlying ==
    EarnReturned =>
        \A n, m \in 1..Len(earn_out.calls) :
            earn_out.calls[n].underlying = earn_out.calls[m].underlying => n = m

\* C6 amended: per underlying asset at most one get_ticker call yields a
\* usable price and no call for that asset follows it; a lookup that raised,
\* returned no data or was malformed is not cached, so every ticker call is
\* made for a distinct included entry.
C6_OneUsableFetchPerUnderlying ==
    EarnReturned =>
        LET calls == earn_out.calls
        IN  /\ \A n, m \in 1..Len(calls) :
                   /\ calls[n].underlying = calls[m].underlying
                   /\ UsablePrice(calls[n].ticker)
                   /\ n <= m
                   => n = m
            /\ \A n, m \in 1..Len(calls) : calls[n].asset = calls[m].asset => n = m
            /\ \A n \in 1..Len(calls) : PosOf(EarnBalances(InBalances), calls[n].asset) > 0

\* DOT.B and DOT.S are both converted with a single, successful DOT lookup
C6_Witness ==
    /\ LoopRan
    /\ PosOf(EarnBalances(InBalances), <<"D", "O", "T", ".", "B">>) > 0
    /\ PosOf(EarnBalances(InBalances), <<"D", "O", "T", ".", "S">>) > 0
    /\ Cardinality(CallsFor(earn_out.calls, <<"D", "O", "T">>)) = 1
    /\ earn_out.value = 10

\* The total the claim C7 describes: base-asset amounts, plus amount * price
\* for each entry whose underlying asset had a usable price by the time the
\* entry was reached
ExpectedTotal(earn_balances, base_asset, calls) ==
    LET contribution ==
          [k \in 1..Len(earn_balances) |->
              LET amount     == earn_balances[k][2]
                  underlying == SplitFirst(earn_balances[k][1], ".")
                  priced     == {n \in CallsFor(calls, underlying) :
                                    /\ UsablePrice(calls[n].ticker)
                                    /\ PosOf(earn_balances, calls[n].asset) <= k}
              IN  IF underlying = base_asset \/ underlying = kraken_base_alt_name(base_asset)
                  THEN amount
                  ELSE IF priced = {} THEN 0
                  ELSE amount * ParseFloat(calls[CHOOSE n \in priced : TRUE].ticker.close).v]
    IN  SumTo(contribution, Len(earn_balances))

\* C7: a price lookup that raises, returns no data or is malformed skips that
\* entry only: the valuation still returns, every get_ticker answer is the
\* market's, and the total is the sum of amount * price over exactly the
\* priced entries plus the base-asset amounts.
C7_BadQuoteSkipsOneAsset ==
    LoopRan =>
        /\ earn_out.status = "return"
        /\ \A n \in 1..Len(earn_out.calls) :
               earn_out.calls[n].ticker = TickerAt(earn_in.kenv.oracle, n)
        /\ earn_out.value =
               ExpectedTotal(EarnBalances(InBalances), earn_in.base_asset, earn_out.calls)

\* the first lookup fails, a later entry is still priced and counted
C7_Witness ==
    /\ LoopRan
    /\ Len(earn_out.calls) >= 2
    /\ ~UsablePrice(earn_out.calls[1].ticker)
    /\ UsablePrice(earn_out.calls[2].ticker)
    /\ earn_out.status = "return"
    /\ earn_out.value > 0

AllBase ==
    \A k \in 1..Len(EarnBalances(InBalances)) :
        LET underlying == SplitFirst(EarnBalances(InBalances)[k][1], ".")
        IN  \/ underlying = earn_in.base_asset
            \/ underlying = kraken_base_alt_name(earn_in.base_asset)

\* C8: when every included balance is held in the base asset or its alias,
\* the valuation returns exactly the sum of the amounts, makes no price
\* lookup and leaves the price cache empty.
C8_BaseAssetFastPath ==
    (LoopRan /\ AllBase) =>
        /\ earn_out.status = "return"
        /\ earn_out.value =
               SumTo([k \in 1..Len(EarnBalances(InBalances)) |-> EarnBalances(InBalances)[k][2]],
                     Len(EarnBalances(InBalances)))
        /\ earn_out.calls = <<>>
        /\ earn_out.price_cache = {}

\* USD.B (4) and ZUSD.S (1) valued in ZUSD
C8_Witness ==
    /\ LoopRan
    /\ AllBase
    /\ earn_in.base_asset = ZUSD
    /\ Len(EarnBalances(InBalances)) = 2
    /\ earn_out.value = 5
    /\ earn_out.calls = <<>>

---------------------------------------------------------------------------
(* Row-builder harness: build_rows on lists of optional snapshots *)

\* largest snapshot list handed to build_rows in the harness
MaxSnaps == 3

KrakenSnapshotWith(earn_wallet_value) ==
    [name |-> "Kraken", currency |-> "ZUSD", account_value |-> 500,
     available_funds |-> 500, earn_wallet_value |-> earn_wallet_value]

\* What a position of the list may hold: None, {}, a snapshot without the
\* earn field, and snapshots whose earn field is negative, zero or positive
SnapshotOptions ==
    << None,
       EmptyDict,
       [name |-> "Alpaca", currency |-> "USD", account_value |-> 1000, available_funds |-> 800],
       [name |-> "OANDA", currency |-> "EUR", account_value |-> 700, available_funds |-> 600],
       KrakenSnapshotWith(4),
       KrakenSnapshotWith(0),
       KrakenSnapshotWith(0 - 2) >>

InitRows ==
    /\ pc = "rows_call"
    /\ \E n \in 0..MaxSnaps :
         \E pick \in [1..n -> 1..Len(SnapshotOptions)] :
            rows_in = [snapshots |-> [i \in 1..n |-> SnapshotOptions[pick[i]]], ts |-> "T1"]
    /\ rows_out = <<>>
    /\ earn_in = NoEarnInput
    /\ earn_out = NoResult
    /\ ProgramIdle

BuildRowsCall ==
    /\ pc = "rows_call"
    /\ rows_out' = build_rows(rows_in.snapshots, rows_in.ts)
    /\ pc' = "rows_ret"
    /\ UNCHANGED <<rows_in, earn_in, earn_out>>
    /\ UNCHANGED ProgramVars

NextRows == BuildRowsCall

SpecRows == InitRows /\ [][NextRows]_vars

RowsReturned == pc = "rows_ret"

Present(snaps) == {i \in 1..Len(snaps) : ~IsNone(snaps[i]) /\ DOMAIN snaps[i] # {}}

WithEarnField(snaps) ==
    {i \in Present(snaps) : "earn_wallet_value" \in DOMAIN snaps[i]}

WithPositiveEarn(snaps) ==
    {i \in WithEarnField(snaps) : snaps[i].earn_wallet_value > 0}

---------------------------------------------------------------------------
(* The process: main, and update_sheet_once step by step *)

\* int(interval_str): [ok |-> FALSE] is ValueError
ParseInt(text) == ParseFloat(text)

\* UPDATE_INTERVAL_SECONDS: unset (or empty), not an integer, -1, 0, 1
IntervalTexts == {<<>>, <<"x">>, <<"-", "1">>, <<"0">>, <<"1">>}

\* the groups of environment variables a deployment may set
EnvGroups == {"GOOGLE", "ALPACA", "KRAKEN", "OANDA"}

\* main() runs the loop: UPDATE_INTERVAL_SECONDS is set and int() accepts it
Scheduled == config.interval # <<>> /\ ParseInt(config.interval).ok

\* get_mountain_timestamp(): the clock, formatted
get_mountain_timestamp(t) == "T" \o ToString(t)

\* KRAKEN_BASE_ASSET, left at its default
KrakenBaseAsset == ZUSD

\* What trading_client.get_account() may answer
AlpacaAccounts ==
    { [equity |-> 1000, buying_power |-> 800, has_currency |-> TRUE, currency |-> "USD"],
      [equity |-> 1200, buying_power |-> 0, has_currency |-> FALSE, currency |-> ""] }

\* What user.get_trade_balance() may answer
TradeBalances ==
    { [has_eb |-> TRUE, eb |-> 500, has_mf |-> TRUE, mf |-> 300],
      [has_eb |-> TRUE, eb |-> 500, has_mf |-> FALSE, mf |-> 0] }

\* What the AccountSummary request may answer
OandaAccounts ==
    { [NAV |-> 700, marginAvailable |-> 600, has_currency |-> TRUE, currency |-> "EUR"],
      [NAV |-> 650, marginAvailable |-> 600, has_currency |-> FALSE, currency |-> ""] }

\* What Kraken's balance and ticker services may do during a cycle: an Earn
\* balance in the base asset (4), no balances (0), a malformed balance
\* answer (the valuation raises), a balance priced at -1 (a negative total)
CycleKraken ==
    { HealthyKraken(ItemsOf({5}), <<>>),
      HealthyKraken(<<>>, <<>>),
      [methods |-> AllMethods, balances |-> [kind |-> "notdict", items |-> <<>>],
       market_ok |-> TRUE, oracle |-> <<>>],
      HealthyKraken(ItemsOf({1}), <<[kind |-> "data", close |-> <<"-", "1">>]>>) }

Init ==
    /\ pc = "main"
    /\ config \in [set : SUBSET EnvGroups, interval : IntervalTexts]
    /\ now = 1
    /\ cycle = 0
    /\ timestamp_str = ""
    /\ snapshots = <<>>
    /\ remote = NoRemote
    /\ rows = <<>>
    /\ wrote = NoWrite
    /\ sheet = InitSheet
    /\ exc = ""
    /\ earn_in = NoEarnInput
    /\ earn_out = NoResult
    /\ rows_in = NoRowsInput
    /\ rows_out = <<>>

Harness == <<rows_in, rows_out>>

\* main(): read UPDATE_INTERVAL_SECONDS; a value int() rejects ends the
\* process with RuntimeError
Main ==
    /\ pc = "main"
    /\ pc' = IF config.interval # <<>> /\ ~ParseInt(config.interval).ok
             THEN "crashed" ELSE "update"
    /\ UNCHANGED <<config, now, cycle, timestamp_str, snapshots, remote, rows,
                   wrote, sheet, exc, earn_in, earn_out>>
    /\ UNCHANGED Harness

\* update_sheet_once() begins: get_gspread_client, get_dashboard_worksheet,
\* get_mountain_timestamp
OpenSheet ==
    /\ pc = "update"
    /\ cycle < MaxCycles
    /\ cycle' = cycle + 1
    /\ snapshots' = <<>>
    /\ remote' = NoRemote
    /\ rows' = <<>>
    /\ wrote' = NoWrite
    /\ IF "GOOGLE" \notin config.set
       THEN pc' = "raised" /\ exc' = "RuntimeError" /\ UNCHANGED timestamp_str
       ELSE \E opened \in BOOLEAN :
              IF opened
              THEN pc' = "alpaca" /\ exc' = "" /\ timestamp_str' = get_mountain_timestamp(now)
              ELSE pc' = "raised" /\ exc' = "gspread" /\ UNCHANGED timestamp_str
    /\ UNCHANGED <<config, now, sheet, earn_in, earn_out>>
    /\ UNCHANGED Harness

\* The adapter after b in the snapshot list, "write" after the last
AfterBroker(b) ==
    IF b = "Alpaca" THEN "kraken" ELSE IF b = "Kraken" THEN "oanda" ELSE "write"

\* An adapter returns x (a snapshot, or None when not configured): the list
\* display goes on to its next element
AdapterReturns(b, x, how) ==
    /\ snapshots' = Append(snapshots, x)
    /\ remote' = [remote EXCEPT ![b] = how]
    /\ pc' = AfterBroker(b)
    /\ exc' = exc

\* Faulty variant of AdapterRaises: the error is swallowed and the broker counts as
\* not configured
AdapterRaisesCaught(b) ==
    /\ remote' = [remote EXCEPT ![b] = "raised"]
    /\ pc' = AfterBroker(b)
    /\ exc' = exc
    /\ snapshots' = Append(snapshots, None)

\* A configured broker's remote call raises inside the list display of
\* update_sheet_once: nothing catches it there
AdapterRaises(b) ==
    /\ remote' = [remote EXCEPT ![b] = "raised"]
    /\ pc' = "raised"
    /\ exc' = b
    /\ snapshots' = snapshots

Alpaca ==
    /\ pc = "alpaca"
    /\ IF "ALPACA" \notin config.set
       THEN AdapterReturns("Alpaca", None, "skipped")
       ELSE \/ \E account \in AlpacaAccounts :
                 AdapterReturns("Alpaca", get_alpaca_snapshot(account), "ok")
            \/ AdapterRaises("Alpaca")
    /\ UNCHANGED <<config, now, cycle, timestamp_str, rows, wrote, sheet, earn_in, earn_out>>
    /\ UNCHANGED Harness

Kraken ==
    /\ pc = "kraken"
    /\ IF "KRAKEN" \notin config.set
       THEN AdapterReturns("Kraken", None, "skipped") /\ UNCHANGED <<earn_in, earn_out>>
       ELSE \/ \E tb \in TradeBalances, kenv \in CycleKraken :
                 LET earn == get_kraken_earn_wallet_value(kenv, KrakenBaseAsset)
                 IN  /\ earn_in' = [kenv |-> kenv, base_asset |-> KrakenBaseAsset]
                     /\ earn_out' = earn
                     /\ AdapterReturns("Kraken",
                                       get_kraken_snapshot(tb, KrakenBaseAsset, earn), "ok")
            \/ AdapterRaises("Kraken") /\ UNCHANGED <<earn_in, earn_out>>
    /\ UNCHANGED <<config, now, cycle, timestamp_str, rows, wrote, sheet>>
    /\ UNCHANGED Harness

Oanda ==
    /\ pc = "oanda"
    /\ IF "OANDA" \notin config.set
       THEN AdapterReturns("OANDA", None, "skipped")
       ELSE \/ \E account \in OandaAccounts :
                 AdapterReturns("OANDA", get_oanda_snapshot(account), "ok")
            \/ AdapterRaises("OANDA")
    /\ UNCHANGED <<config, now, cycle, timestamp_str, rows, wrote, sheet, earn_in, earn_out>>
    /\ UNCHANGED Harness

\* Faulty variant of SheetAfterWrite: the data region is cleared before the block
\* is written
SheetAfterClearAndWrite(sh, rs) ==
    ws_update([r \in DOMAIN sh |->
                  [c \in DOMAIN sh[r] |->
                      IF r >= start_row /\ c <= 3 THEN EmptyCell ELSE sh[r][c]]],
              cell_range(rs), rs)

\* The sheet after update_sheet_once's one write: ws.update on the computed
\* range, and nothing else
SheetAfterWrite(sh, rs) == ws_update(sh, cell_range(rs), rs)

\* build_rows, the empty check, and ws.update on the computed range
BuildAndWrite ==
    /\ pc = "write"
    /\ rows' = build_rows(snapshots, timestamp_str)
    /\ IF Len(rows') = 0
       THEN pc' = "returned" /\ UNCHANGED <<wrote, sheet, exc>>
       ELSE /\ wrote' = [issued |-> TRUE, range_name |-> cell_range(rows'), values |-> rows']
            /\ \E written \in BOOLEAN :
                 IF written
                 THEN /\ sheet' = SheetAfterWrite(sheet, rows')
                      /\ pc' = "returned"
                      /\ exc' = exc
                 ELSE /\ sheet' = sheet
                      /\ pc' = "raised"
                      /\ exc' = "ws.update"
    /\ UNCHANGED <<config, now, cycle, timestamp_str, snapshots, remote, earn_in, earn_out>>
    /\ UNCHANGED Harness

\* update_sheet_once returned: the single run is done, the loop goes to sleep
Returned ==
    /\ pc = "returned"
    /\ pc' = IF Scheduled THEN "sleep" ELSE "exited"
    /\ UNCHANGED <<config, now, cycle, timestamp_str, snapshots, remote, rows,
                   wrote, sheet, exc, earn_in, earn_out>>
    /\ UNCHANGED Harness

\* update_sheet_once raised: the loop's except Exception logs it and goes to
\* sleep; the single run has no handler
Raised ==
    /\ pc = "raised"
    /\ pc' = IF Scheduled THEN "sleep" ELSE "crashed"
    /\ UNCHANGED <<config, now, cycle, timestamp_str, snapshots, remote, rows,
                   wrote, sheet, exc, earn_in, earn_out>>
    /\ UNCHANGED Harness

\* time.sleep(interval), outside the try: a negative interval raises
\* ValueError, which ends the process
Sleep ==
    /\ pc = "sleep"
    /\ LET interval == ParseInt(config.interval).v
       IN  IF interval < 0
           THEN pc' = "crashed" /\ now' = now
           ELSE pc' = "update" /\ now' = now + interval
    /\ UNCHANGED <<config, cycle, timestamp_str, snapshots, remote, rows,
                   wrote, sheet, exc, earn_in, earn_out>>
    /\ UNCHANGED Harness

Next ==
    \/ Main
    \/ OpenSheet
    \/ Alpaca
    \/ Kraken
    \/ Oanda
    \/ BuildAndWrite
    \/ Returned
    \/ Raised
    \/ Sleep

Spec == Init /\ [][Next]_vars

---------------------------------------------------------------------------
(* Claims about the update cycle, checked under Spec *)

BrokerSet == {"Alpaca", "Kraken", "OANDA"}

SomeBrokerRaised == \E b \in BrokerSet : remote[b] = "raised"

\* update_sheet_once is over for the current cycle
CycleOver == pc \in {"returned", "raised", "sleep", "exited", "crashed"}

\* C1 as stated: when a configured broker's remote call raises, the cycle
\* still writes the rows of the brokers that returned a snapshot.
C1_CycleSurvivesAdapterError ==
    (CycleOver /\ SomeBrokerRaised /\ \E b \in BrokerSet : remote[b] = "ok")
        => wrote.issued

\* C1 amended: when a configured broker's remote call raises, the exception
\* leaves update_sheet_once: the adapters after it are not called, no rows
\* are built and no write is issued in that cycle, so the rows of the other
\* brokers are not updated.
C1_AdapterErrorAbortsCycle ==
    \A b \in BrokerSet :
        remote[b] = "raised" =>
            /\ pc \in {"raised", "sleep", "crashed", "update"}
            /\ exc = b
            /\ rows = <<>>
            /\ ~wrote.issued
            /\ \A i \in 1..3 :
                   (\E j \in 1..(i - 1) : Brokers[j] = b) => remote[Brokers[i]] = "not_called"

\* Alpaca returned a snapshot, Kraken raised, and the cycle is over
C1_Witness ==
    /\ CycleOver
    /\ remote["Alpaca"] = "ok"
    /\ remote["Kraken"] = "raised"
    /\ Len(snapshots) = 1
    /\ ~wrote.issued

\* C2: on a schedule, a failed cycle aborts only that cycle and never ends
\* the loop: after a cycle that raised, the process is still running (asleep
\* or starting the next cycle).
C2_FailedCycleKeepsLoopRunning ==
    (Scheduled /\ exc # "") => pc # "crashed"

\* The loop under the scheduling the code has: a single thread that always
\* takes its next step (every remote call answers or raises)
LiveSpec == Spec /\ WF_vars(Next)

\* C2, for an interval of zero or more: a cycle that raised is followed by the
\* next cycle (as far as the run is followed)
C2_NextCycleAfterFailure ==
    \A n \in 1..(MaxCycles - 1) :
        (Scheduled /\ ParseInt(config.interval).v >= 0 /\ cycle = n /\ pc = "raised")
            ~> (cycle = n + 1)

Rect(n) == [c1 |-> 1, r1 |-> 5, c2 |-> 3, r2 |-> 4 + n]

\* C3: a write addresses exactly columns A..C, rows 5..(4 + n) for the n >= 1
\* rows built in the cycle and carries exactly those rows; a cycle with no
\* rows issues no write; rows 1-4 and columns D onward are never changed.
C3_WriteRectangle ==
    /\ wrote.issued =>
         /\ Len(rows) >= 1
         /\ wrote.values = rows
         /\ wrote.range_name[1] = "A"
         /\ ParseA1(wrote.range_name) = Rect(Len(rows))
    /\ (CycleOver /\ Len(rows) = 0) => ~wrote.issued
    /\ \A r \in DOMAIN sheet : \A c \in DOMAIN sheet[r] :
         (r <= 4 \/ c >= 4) => sheet[r][c] = InitSheet[r][c]

\* Scenario E: seven rows written to A5:C11
C3_Witness ==
    /\ pc = "returned"
    /\ wrote.issued
    /\ Len(rows) = 7
    /\ wrote.range_name = <<"A", "5", ":", "C", "1", "1">>
    /\ sheet[11][3] = PyStr(timestamp_str)
    /\ sheet[12][1] = EmptyCell

KrakenAnswered == remote["Kraken"] = "ok"

\* C9: when the trade-balance call succeeds, get_kraken_snapshot returns a
\* snapshot, and it carries earn_wallet_value if and only if the valuation
\* returned a strictly positive value (then that value); a valuation that
\* raises or returns zero or less gives a snapshot without the field.
C9_EarnFieldIffPositive ==
    KrakenAnswered =>
        /\ Len(snapshots) >= 2
        /\ ~Falsy(snapshots[2])
        /\ snapshots[2].name = "Kraken"
        /\ ("earn_wallet_value" \in DOMAIN snapshots[2])
             <=> (earn_out.status = "return" /\ earn_out.value > 0)
        /\ "earn_wallet_value" \in DOMAIN snapshots[2]
             => snapshots[2].earn_wallet_value = earn_out.value

\* the valuation raised and the Kraken snapshot is there, without the field
C9_Witness ==
    /\ KrakenAnswered
    /\ earn_out.status = "raise"
    /\ Len(snapshots) >= 2
    /\ snapshots[2].name = "Kraken"
    /\ "earn_wallet_value" \notin DOMAIN snapshots[2]

\* C10: a write of n rows leaves every cell outside A5:C(4+n) as it was,
\* the rows below row 4+n included, and no other step changes the sheet.
C10_WriteFrame ==
    [][ /\ sheet' # sheet => (pc = "write" /\ wrote'.issued)
        /\ \A r \in DOMAIN sheet : \A c \in DOMAIN sheet[r] :
             (r < 5 \/ r > 4 + Len(rows') \/ c > 3) => sheet'[r][c] = sheet[r][c]
      ]_vars

\* after a later cycle wrote six rows, row 11 still holds the seventh row of
\* an earlier cycle, with that cycle's older timestamp
C10_Witness ==
    /\ pc = "returned"
    /\ wrote.issued
    /\ Len(rows) = 6
    /\ sheet[10][3] = PyStr(timestamp_str)
    /\ sheet[11][1] = PyStr("OANDA: Available Funds (EUR)")
    /\ sheet[11][3].t = "str"
    /\ sheet[11][3] # PyStr(timestamp_str)

====
